---- MODULE Spec2Model ----
(***************************************************************************)
(* A model of toolbox.py (the multicall-binary manager) and of the name    *)
(* validator of manager.py.                                                *)
(*                                                                         *)
(*   Spec          the filesystem state machine: create, build, list, the  *)
(*                 atomic writer, the compiler run and the installation of *)
(*                 the entry points, one step at a time, with interruption *)
(*   SpecValidate  the name validators applied to bounded strings          *)
(*   SpecDispatch  the generated C dispatcher run on bounded argv          *)
(*                                                                         *)
(* Strings are sequences of one-character strings, so that the regular     *)
(* expression, the sort, basename and strcmp are computed, not assumed.    *)
(***************************************************************************)
EXTENDS Integers, Sequences, FiniteSets, TLC

VARIABLES
    pc,       \* position of the running command ("idle" between commands)
    cmd,      \* the last operation started: "none", "create", "build", "list", "edit"
    arg,      \* create's name argument
    blist,    \* cmd_build's / list's local `tools`
    idx,      \* position of the installation loop in tools + [APP_NAME]
    tmp,      \* the NamedTemporaryFile of the running atomic_write
    tools,    \* TOOLS directory: file name -> content
    mainc,    \* BUILD / "main.c"
    out,      \* BUILD / APP_NAME, the multicall binary
    bin,      \* BIN directory: entry name -> symlink target
    litter,   \* directories holding a temporary file left by an interrupted write
    pre,      \* the filesystem as it was when the last operation started
    result,   \* how the last operation ended
    vs,       \* SpecValidate: the candidate string
    vres,     \* SpecValidate: the validators' verdicts
    dTable,   \* SpecDispatch: the tool names baked into the dispatch table
    dArgs,    \* SpecDispatch: the arguments after the command name
    dRun      \* SpecDispatch: the recorded runs of main()

fsvars == <<pc, cmd, arg, blist, idx, tmp, tools, mainc, out, bin, litter, pre, result>>
valvars == <<vs, vres>>
dispvars == <<dTable, dArgs, dRun>>
vars == <<fsvars, valvars, dispvars>>

---------------------------------------------------------------------------
(* Bounds *)

\* f.write(data) reaches the temporary file in this many pieces
NChunks == 2
\* longest candidate string given to the validators
MaxLen == 3
\* most arguments after the command name given to the dispatcher
MaxArgs == 2

---------------------------------------------------------------------------
(* Characters and strings *)

\* the characters the model's strings are made of, and their code points
Chars == {"\n", "-", ".", "/", "0", "A", "_", "a", "b", "c", "e", "h", "i",
          "l", "n", "o", "p", "t", "x", "z"}

CodePoint(c) ==
    CASE c = "\n" -> 10
      [] c = "-" -> 45
      [] c = "." -> 46
      [] c = "/" -> 47
      [] c = "0" -> 48
      [] c = "A" -> 65
      [] c = "_" -> 95
      [] c = "a" -> 97
      [] c = "b" -> 98
      [] c = "c" -> 99
      [] c = "e" -> 101
      [] c = "h" -> 104
      [] c = "i" -> 105
      [] c = "l" -> 108
      [] c = "n" -> 110
      [] c = "o" -> 111
      [] c = "p" -> 112
      [] c = "t" -> 116
      [] c = "x" -> 120
      [] c = "z" -> 122

IsLower(c) == CodePoint(c) >= 97 /\ CodePoint(c) <= 122
IsUpper(c) == CodePoint(c) >= 65 /\ CodePoint(c) <= 90
IsDigit(c) == CodePoint(c) >= 48 /\ CodePoint(c) <= 57

\* Python's str comparison: by code point, a proper prefix first
RECURSIVE StrLess(_, _)
StrLess(s, t) ==
    IF t = <<>> THEN FALSE
    ELSE IF s = <<>> THEN TRUE
    ELSE IF CodePoint(Head(s)) # CodePoint(Head(t))
         THEN CodePoint(Head(s)) < CodePoint(Head(t))
         ELSE StrLess(Tail(s), Tail(t))

APP_NAME == <<"t", "o", "o", "l", "b", "o", "x">>

---------------------------------------------------------------------------
(* Name validation *)

\* `$` of Python's re: the end of the string, or just before a newline that
\* ends the string
DollarAt(s, p) == p = Len(s) + 1 \/ (p = Len(s) /\ s[p] = "\n")

\* re.match of ^[First][Rest]*$ for two character classes: some split of s
\* into one First character, a run of Rest characters, and a position where
\* `$` matches
MatchHeadStarEnd(First, Rest, s) ==
    /\ Len(s) >= 1
    /\ s[1] \in First
    /\ \E k \in 1..Len(s) :
          /\ \A i \in 2..k : s[i] \in Rest
          /\ DollarAt(s, k + 1)

\* [a-z] and [a-z0-9_]
ToolFirst == {c \in Chars : IsLower(c)}
ToolRest == {c \in Chars : IsLower(c) \/ IsDigit(c) \/ c = "_"}
TOOL_RE(s) == MatchHeadStarEnd(ToolFirst, ToolRest, s)

\* validate_tool: TRUE when the name is returned, FALSE when it dies
validate_tool(name) == TOOL_RE(name)

\* [A-Za-z_] and [A-Za-z0-9_]
NameFirst == {c \in Chars : IsLower(c) \/ IsUpper(c) \/ c = "_"}
NameRest == NameFirst \cup {c \in Chars : IsDigit(c)}
NAME_PATTERN(s) == MatchHeadStarEnd(NameFirst, NameRest, s)
is_valid_tool_name(name) == NAME_PATTERN(name)

---------------------------------------------------------------------------
(* Files *)

NoFile == [kind |-> "absent", of |-> <<>>, written |-> 0]
NoBinary == [kind |-> "absent", of |-> <<>>]
NoTmp == [dir |-> "none", kind |-> "absent", of |-> <<>>, written |-> 0]
NoLink == "none"
\* out = BUILD / APP_NAME, the path every entry point links to
OUT == "build/toolbox"

\* the text of a module skeleton is determined by the name
tool_template(name) == [kind |-> "tool", of |-> <<name>>]
\* the text of the dispatcher is determined by the ordered tool list
dispatcher_template(ts) == [kind |-> "dispatcher", of |-> ts]
\* a module written by hand
UserText == [kind |-> "user", of |-> <<>>]

\* a file holding the first k pieces of data
FileOf(data, k) == [kind |-> data.kind, of |-> data.of, written |-> k]
Complete(f) == f.kind = "absent" \/ f.written = NChunks
Exists(f) == f.kind # "absent"

\* the binary the compiler links from the dispatcher over ts
Binary(ts) == [kind |-> "binary", of |-> ts]

\* the names the model creates, edits and lists
Stems == {<<"a">>, <<"A">>, APP_NAME}
\* TOOLS / f"{name}.c"
FileName(name) == name \o <<".", "c">>
ToolFiles == {FileName(n) : n \in Stems}

MaxOf(S) == CHOOSE x \in S : \A y \in S : y <= x

\* Path.stem: the name up to its last dot, unless that dot is first or last
StemOf(f) ==
    LET dots == {i \in 1..Len(f) : f[i] = "."}
    IN  IF dots = {} \/ MaxOf(dots) = 1 \/ MaxOf(dots) = Len(f)
        THEN f
        ELSE SubSeq(f, 1, MaxOf(dots) - 1)

\* glob("*.c") over a directory
GlobC(dir) ==
    {f \in DOMAIN dir :
        /\ Exists(dir[f])
        /\ Len(f) >= 2
        /\ f[Len(f) - 1] = "."
        /\ f[Len(f)] = "c"}

\* sorted(): ascending by Python's str order
RECURSIVE sorted(_)
sorted(S) ==
    IF S = {} THEN <<>>
    ELSE LET m == CHOOSE x \in S : \A y \in S : y = x \/ StrLess(x, y)
         IN  <<m>> \o sorted(S \ {m})

list_tools(dir) == sorted({StemOf(f) : f \in GlobC(dir)})

Range(s) == {s[i] : i \in 1..Len(s)}

---------------------------------------------------------------------------
(* The filesystem state machine: toolbox.py *)

EntryNames == Stems \cup {APP_NAME}

\* what a command is compared against when it ends: the file its write is
\* aimed at, the build and install roots, and whether a compiler is on PATH
Snapshot(target, cc) ==
    [target |-> target, mainc |-> mainc, out |-> out, bin |-> bin,
     litter |-> litter, cc |-> cc]

Ended(st) == [st |-> st, at |-> pc]

\* ensure_dirs() has run: the three directories exist and are empty
FsInit ==
    /\ pc = "idle"
    /\ cmd = "none"
    /\ arg = <<>>
    /\ blist = <<>>
    /\ idx = 0
    /\ tmp = NoTmp
    /\ tools = [f \in ToolFiles |-> NoFile]
    /\ mainc = NoFile
    /\ out = NoBinary
    /\ bin = [n \in EntryNames |-> NoLink]
    /\ litter = {}
    /\ pre = [target |-> NoFile, mainc |-> NoFile, out |-> NoBinary,
              bin |-> [n \in EntryNames |-> NoLink], litter |-> {}, cc |-> TRUE]
    /\ result = [st |-> "none", at |-> "idle"]

\* the operator writes or edits a module file by hand between two commands
UserWrites ==
    /\ pc = "idle"
    /\ \E n \in Stems :
          /\ tools' = [tools EXCEPT ![FileName(n)] = FileOf(UserText, NChunks)]
          /\ arg' = n
          /\ pre' = Snapshot(tools[FileName(n)], TRUE)
    /\ cmd' = "edit"
    /\ blist' = <<>>
    /\ result' = Ended("ok")
    /\ UNCHANGED <<pc, idx, tmp, mainc, out, bin, litter>>
    /\ UNCHANGED <<valvars, dispvars>>

\* CmdCreate with the path.exists() test left out
CmdCreate_NoExistsCheck ==
    /\ pc = "idle"
    /\ \E name \in Stems :
          /\ arg' = name
          /\ IF ~validate_tool(name)
             THEN pc' = "idle" /\ result' = Ended("InvalidName")
             ELSE pc' = "aw_open" /\ result' = Ended("running")
          /\ pre' = Snapshot(tools[FileName(name)], TRUE)
    /\ cmd' = "create"
    /\ blist' = <<>>
    /\ UNCHANGED <<idx, tmp, tools, mainc, out, bin, litter>>
    /\ UNCHANGED <<valvars, dispvars>>

\* cmd_create up to the call of atomic_write
CmdCreate ==
    /\ pc = "idle"
    /\ \E name \in Stems :
          /\ arg' = name
          /\ IF ~validate_tool(name)
             THEN pc' = "idle" /\ result' = Ended("InvalidName")
             ELSE IF Exists(tools[FileName(name)])
             THEN pc' = "idle" /\ result' = Ended("AlreadyExists")
             ELSE pc' = "aw_open" /\ result' = Ended("running")
          /\ pre' = Snapshot(tools[FileName(name)], TRUE)
    /\ cmd' = "create"
    /\ blist' = <<>>
    /\ UNCHANGED <<idx, tmp, tools, mainc, out, bin, litter>>
    /\ UNCHANGED <<valvars, dispvars>>

\* the `list` command of main()
CmdList ==
    /\ pc = "idle"
    /\ cmd' = "list"
    /\ arg' = <<>>
    /\ blist' = list_tools(tools)
    /\ pre' = Snapshot(mainc, TRUE)
    /\ result' = Ended("ok")
    /\ UNCHANGED <<pc, idx, tmp, tools, mainc, out, bin, litter>>
    /\ UNCHANGED <<valvars, dispvars>>

\* CmdBuild with the `if not tools` test left out
CmdBuild_NoEmptyCheck ==
    /\ pc = "idle"
    /\ \E cc \in BOOLEAN :
          /\ pre' = Snapshot(mainc, cc)
          /\ IF ~cc
             THEN pc' = "idle" /\ result' = Ended("NoCompiler") /\ blist' = <<>>
             ELSE /\ blist' = list_tools(tools)
                  /\ pc' = "aw_open"
                  /\ result' = Ended("running")
    /\ cmd' = "build"
    /\ arg' = <<>>
    /\ UNCHANGED <<idx, tmp, tools, mainc, out, bin, litter>>
    /\ UNCHANGED <<valvars, dispvars>>

\* cmd_build up to the call of atomic_write: find_cc, list_tools, the
\* empty check. cc is whether shutil.which finds gcc or clang.
CmdBuild ==
    /\ pc = "idle"
    /\ \E cc \in BOOLEAN :
          /\ pre' = Snapshot(mainc, cc)
          /\ IF ~cc
             THEN pc' = "idle" /\ result' = Ended("NoCompiler") /\ blist' = <<>>
             ELSE /\ blist' = list_tools(tools)
                  /\ IF list_tools(tools) = <<>>
                     THEN pc' = "idle" /\ result' = Ended("NoTools")
                     ELSE pc' = "aw_open" /\ result' = Ended("running")
    /\ cmd' = "build"
    /\ arg' = <<>>
    /\ UNCHANGED <<idx, tmp, tools, mainc, out, bin, litter>>
    /\ UNCHANGED <<valvars, dispvars>>

\* the arguments of the running atomic_write(path, data)
AwDir == IF cmd = "create" THEN "tools" ELSE "build"
AwData == IF cmd = "create" THEN tool_template(arg) ELSE dispatcher_template(blist)
AwTarget == IF cmd = "create" THEN tools[FileName(arg)] ELSE mainc

\* NamedTemporaryFile(dir=path.parent): a fresh, empty file beside the target
AwOpen ==
    /\ pc = "aw_open"
    /\ tmp' = [dir |-> AwDir, kind |-> AwData.kind, of |-> AwData.of, written |-> 0]
    /\ pc' = "aw_write"
    /\ UNCHANGED <<cmd, arg, blist, idx, tools, mainc, out, bin, litter, pre, result>>
    /\ UNCHANGED <<valvars, dispvars>>

\* AwWrite with the data written to the target path itself, as
\* open(path, "w") would
AwWrite_InPlace ==
    /\ pc = "aw_write"
    /\ tmp.written < NChunks
    /\ tmp' = [tmp EXCEPT !.written = @ + 1]
    /\ IF cmd = "create"
       THEN /\ tools' = [tools EXCEPT ![FileName(arg)] = FileOf(tmp, tmp.written + 1)]
            /\ UNCHANGED mainc
       ELSE /\ mainc' = FileOf(tmp, tmp.written + 1)
            /\ UNCHANGED tools
    /\ UNCHANGED <<pc, cmd, arg, blist, idx, out, bin, litter, pre, result>>
    /\ UNCHANGED <<valvars, dispvars>>

\* f.write(data): the next piece reaches the temporary file
AwWrite ==
    /\ pc = "aw_write"
    /\ tmp.written < NChunks
    /\ tmp' = [tmp EXCEPT !.written = @ + 1]
    /\ UNCHANGED <<pc, cmd, arg, blist, idx, tools, mainc, out, bin, litter, pre, result>>
    /\ UNCHANGED <<valvars, dispvars>>

\* os.replace(tmp, path), then the caller goes on: cmd_create prints and
\* returns, cmd_build goes to the compiler
AwReplace ==
    /\ pc = "aw_write"
    /\ tmp.written = NChunks
    /\ tmp' = NoTmp
    /\ IF cmd = "create"
       THEN /\ tools' = [tools EXCEPT ![FileName(arg)] = FileOf(tmp, tmp.written)]
            /\ pc' = "idle"
            /\ result' = Ended("ok")
            /\ UNCHANGED mainc
       ELSE /\ mainc' = FileOf(tmp, tmp.written)
            /\ pc' = "b_compile"
            /\ UNCHANGED <<tools, result>>
    /\ UNCHANGED <<cmd, arg, blist, idx, out, bin, litter, pre>>
    /\ UNCHANGED <<valvars, dispvars>>

\* subprocess.check_call([cc, *CFLAGS, "-o", out, main_c, ...modules, *LDFLAGS]).
\* The compiler writes to `out` itself. It exits 0 with the new binary there;
\* or non-zero before linking, `out` as it was; or non-zero in the link, and
\* the linker removes its output file.
Compile ==
    /\ pc = "b_compile"
    /\ \E outcome \in {"ok", "cc_error", "ld_error"} :
          CASE outcome = "ok" ->
                  /\ out' = Binary(blist)
                  /\ pc' = "b_unlink"
                  /\ idx' = 1
                  /\ UNCHANGED result
            [] outcome = "cc_error" ->
                  /\ pc' = "idle"
                  /\ result' = Ended("BuildError")
                  /\ UNCHANGED <<out, idx>>
            [] outcome = "ld_error" ->
                  /\ out' = NoBinary
                  /\ pc' = "idle"
                  /\ result' = Ended("BuildError")
                  /\ UNCHANGED idx
    /\ UNCHANGED <<cmd, arg, blist, tmp, tools, mainc, bin, litter, pre>>
    /\ UNCHANGED <<valvars, dispvars>>

\* InstallNames without the canonical name
InstallNames_ToolsOnly == blist

\* for t in tools + [APP_NAME]
InstallNames == blist \o <<APP_NAME>>

\* what a path under BIN resolves to
Resolve(links, binary, n) == IF links[n] = OUT THEN binary ELSE NoBinary

\* link.exists() follows the link
LinkExists(n) == bin[n] # NoLink /\ Exists(Resolve(bin, out, n))

\* if link.exists(): link.unlink()
InstallUnlink ==
    /\ pc = "b_unlink"
    /\ LET t == InstallNames[idx]
       IN  bin' = IF LinkExists(t) THEN [bin EXCEPT ![t] = NoLink] ELSE bin
    /\ pc' = "b_symlink"
    /\ UNCHANGED <<cmd, arg, blist, idx, tmp, tools, mainc, out, litter, pre, result>>
    /\ UNCHANGED <<valvars, dispvars>>

\* link.symlink_to(out), the next name, and after the last one the prints
InstallSymlink ==
    /\ pc = "b_symlink"
    /\ LET t == InstallNames[idx]
       IN  IF bin[t] # NoLink
           THEN \* FileExistsError
                /\ pc' = "idle"
                /\ result' = Ended("FileExists")
                /\ idx' = 0
                /\ UNCHANGED bin
           ELSE /\ bin' = [bin EXCEPT ![t] = OUT]
                /\ IF idx = Len(InstallNames)
                   THEN pc' = "idle" /\ result' = Ended("ok") /\ idx' = 0
                   ELSE pc' = "b_unlink" /\ idx' = idx + 1 /\ UNCHANGED result
    /\ UNCHANGED <<cmd, arg, blist, tmp, tools, mainc, out, litter, pre>>
    /\ UNCHANGED <<valvars, dispvars>>

\* the process is killed in the middle of a command: whatever it had on
\* disk stays, the temporary file of a running write included
Interrupt ==
    /\ pc # "idle"
    /\ pc' = "idle"
    /\ result' = Ended("interrupted")
    /\ litter' = IF tmp = NoTmp THEN litter ELSE litter \cup {tmp.dir}
    /\ tmp' = NoTmp
    /\ idx' = 0
    /\ UNCHANGED <<cmd, arg, blist, tools, mainc, out, bin, pre>>
    /\ UNCHANGED <<valvars, dispvars>>

ValIdle == vs = <<>> /\ vres = [tool |-> "unset", manager |-> "unset"]
DispIdle == dTable = <<>> /\ dArgs = <<>> /\ dRun = <<>>

Init == FsInit /\ ValIdle /\ DispIdle

Next ==
    \/ UserWrites
    \/ CmdCreate
    \/ CmdList
    \/ CmdBuild
    \/ AwOpen
    \/ AwWrite
    \/ AwReplace
    \/ Compile
    \/ InstallUnlink
    \/ InstallSymlink
    \/ Interrupt

Spec == Init /\ [][Next]_vars

---------------------------------------------------------------------------
(* Properties of the filesystem state machine *)

\* the grammar ^[a-z][a-z0-9_]*$ read as a grammar: a lowercase letter, then
\* lowercase letters, digits and underscores, and nothing else
Grammar(s) ==
    /\ Len(s) >= 1
    /\ IsLower(s[1])
    /\ \A i \in 2..Len(s) : IsLower(s[i]) \/ IsDigit(s[i]) \/ s[i] = "_"

Installed(links) == {n \in DOMAIN links : links[n] # NoLink}
BuildFailed == cmd = "build" /\ pc = "idle"
                /\ result.st \in {"NoCompiler", "NoTools", "BuildError"}
InAtomicWrite(p) == p \in {"aw_open", "aw_write"}
InInstall(p) == p \in {"b_unlink", "b_symlink"}

\* C1: a build that fails (no compiler, no tools, or the compiler exits
\* non-zero) leaves the binary and every entry point as they were before the
\* call: the same names, each resolving to the same binary.
C1_FailedBuildKeepsArtifact ==
    BuildFailed =>
        /\ out = pre.out
        /\ bin = pre.bin
        /\ \A n \in EntryNames : Resolve(bin, out, n) = Resolve(pre.bin, pre.out, n)

\* C2: when a build has succeeded, the installed entry points are the tool
\* names listed by that build plus APP_NAME, and each resolves to the binary
\* that build produced.
C2_EntryPointsAfterBuild ==
    (cmd = "build" /\ pc = "idle" /\ result.st = "ok") =>
        /\ blist = list_tools(tools)
        /\ Installed(bin) = Range(blist) \cup {APP_NAME}
        /\ out = Binary(blist)
        /\ \A n \in Installed(bin) : Resolve(bin, out, n) = Binary(blist)

\* a rebuild over two tools or more that replaced an older, different binary
C2_Witness ==
    /\ cmd = "build" /\ pc = "idle" /\ result.st = "ok"
    /\ Len(blist) >= 2
    /\ Exists(pre.out)
    /\ pre.out # out

\* C3: create(name) on a name whose module file exists, whatever its content,
\* ends at once with the already-exists error (the invalid-name error when
\* the name does not pass validate_tool) and the file's content is unchanged.
C3_CreateNeverOverwrites ==
    (cmd = "create" /\ Exists(pre.target)) =>
        /\ pc = "idle"
        /\ result.st = IF validate_tool(arg) THEN "AlreadyExists" ELSE "InvalidName"
        /\ tools[FileName(arg)] = pre.target

\* create on a module the operator has edited by hand
C3_Witness ==
    /\ cmd = "create"
    /\ pre.target = FileOf(UserText, NChunks)
    /\ result.st = "AlreadyExists"
    /\ tools[FileName(arg)] = FileOf(UserText, NChunks)

BuildRootsUntouched ==
    /\ mainc = pre.mainc
    /\ out = pre.out
    /\ bin = pre.bin
    /\ litter = pre.litter
    /\ tmp = NoTmp

\* C4 as stated: with an empty listing build() fails with the no-tools
\* error and writes nothing under the build and install roots.
C4_EmptyRegistryIsNoToolsError ==
    (cmd = "build" /\ list_tools(tools) = <<>>) =>
        /\ pc = "idle"
        /\ result.st = "NoTools"
        /\ BuildRootsUntouched

\* C4 amended: with an empty listing build() fails, with the no-tools error
\* when a compiler is found and with the no-compiler error when none is
\* (find_cc runs first), and writes nothing under the build and install roots.
C4_EmptyRegistryFails ==
    (cmd = "build" /\ list_tools(tools) = <<>>) =>
        /\ pc = "idle"
        /\ result.st = IF pre.cc THEN "NoTools" ELSE "NoCompiler"
        /\ BuildRootsUntouched

C4_Witness ==
    /\ cmd = "build"
    /\ list_tools(tools) = <<>>
    /\ pre.cc
    /\ result.st = "NoTools"

\* C5: atomic_write never shows a partial file at the target path. While the
\* write runs, and after an interruption before the rename, the target holds
\* its prior content (or is still absent) and nothing but a temporary file in
\* the target's directory is left; after the rename it holds exactly data.
C5_AtomicWrite ==
    /\ \A f \in ToolFiles : Complete(tools[f])
    /\ Complete(mainc)
    /\ InAtomicWrite(pc) => AwTarget = pre.target
    /\ (pc = "idle" /\ result.st = "interrupted" /\ InAtomicWrite(result.at)) =>
          /\ AwTarget = pre.target
          /\ mainc = pre.mainc
          /\ out = pre.out
          /\ bin = pre.bin
          /\ litter \subseteq pre.litter \cup {AwDir}
    /\ (cmd = "create" /\ pc = "idle" /\ result.st = "ok") =>
          tools[FileName(arg)] = FileOf(tool_template(arg), NChunks)
    /\ pc = "b_compile" => mainc = FileOf(dispatcher_template(blist), NChunks)

\* half of a new dispatcher is in the temporary file while build/main.c
\* still holds the dispatcher of an earlier, different tool list
C5_Witness ==
    /\ cmd = "build"
    /\ pc = "aw_write"
    /\ tmp.written >= 1
    /\ tmp.written < NChunks
    /\ Exists(pre.target)
    /\ pre.target.of # blist
    /\ mainc = pre.target

\* C7: list() is, in order, exactly the stems of the module files whose stem
\* is in the grammar; no other name reaches cmd_build's tool list.
C7_ListIsValidStems ==
    ((cmd = "list" \/ (cmd = "build" /\ pre.cc)) /\ pc = "idle") =>
        blist = sorted({n \in {StemOf(f) : f \in GlobC(tools)} : Grammar(n)})

\* C10: through the installation step, and after an interruption anywhere in
\* it, every name that had an entry point before the build still has one, and
\* it resolves to an existing binary.
C10_EntryPointNeverMissing ==
    (cmd = "build" /\ (InInstall(pc) \/ (pc = "idle" /\ InInstall(result.at)))) =>
        \A n \in Installed(pre.bin) :
            /\ bin[n] # NoLink
            /\ Exists(Resolve(bin, out, n))

---------------------------------------------------------------------------
(* The name validators applied to bounded strings *)

Alphabet == {"a", "z", "A", "0", "_", "-", "\n"}
StringsUpTo(n) == UNION {[1..k -> Alphabet] : k \in 0..n}

ValInit ==
    /\ vs \in StringsUpTo(MaxLen)
    /\ vres = [tool |-> "unset", manager |-> "unset"]

Verdict(accepted) == IF accepted THEN "accept" ELSE "reject"

\* toolbox.py: cmd_create's validate_tool(name)
ValidateTool ==
    /\ vres.tool = "unset"
    /\ vres' = [vres EXCEPT !.tool = Verdict(validate_tool(vs))]
    /\ UNCHANGED <<vs, fsvars, dispvars>>

\* manager.py: create_tool's is_valid_tool_name(name)
ValidateManager ==
    /\ vres.manager = "unset"
    /\ vres' = [vres EXCEPT !.manager = Verdict(is_valid_tool_name(vs))]
    /\ UNCHANGED <<vs, fsvars, dispvars>>

InitValidate == FsInit /\ ValInit /\ DispIdle
NextValidate == ValidateTool \/ ValidateManager
SpecValidate == InitValidate /\ [][NextValidate]_vars

\* C6: validate_tool accepts a string exactly when it is in the grammar
\* ^[a-z][a-z0-9_]*$: a lowercase letter followed by lowercase letters,
\* digits and underscores only.
C6_ValidateIffGrammar ==
    vres.tool # "unset" => (vres.tool = "accept" <=> Grammar(vs))

---------------------------------------------------------------------------
(* The generated dispatcher: the C program of dispatcher_template *)

HelpLong == <<"-", "-", "h", "e", "l", "p">>
HelpShort == <<"-", "h">>
\* !strcmp(a, "--help") || !strcmp(a, "-h")
IsHelpFlag(a) == a = HelpLong \/ a = HelpShort

\* basename(argv[0]): what follows the last slash
Basename(p) ==
    LET slashes == {i \in 1..Len(p) : p[i] = "/"}
    IN  IF slashes = {} THEN p ELSE SubSeq(p, MaxOf(slashes) + 1, Len(p))

\* What one run of the binary does: the function that is reached, the name
\* and the argument vector it is given, the stream the dispatcher prints an
\* "Unknown command" line to ("" when it prints none), and the exit status
\* ("fn" is whatever the tool's entry function returns).
Outcome(fn, name, av, unknown, status) ==
    [fn |-> fn, name |-> name, argv |-> av, unknown |-> unknown, status |-> status]

\* static void help()
help == Outcome("help", <<>>, <<>>, "", "0")

\* static void tool_help(const char *name), called by dispatch, which returns 0
tool_help(table, name) ==
    IF name \in Range(table)
    THEN Outcome("tool_help", name, <<>>, "", "0")
    ELSE Outcome("tool_help", name, <<>>, "stdout", "0")

\* static int dispatch(const char *name, int argc, char **argv)
dispatch(table, name, av) ==
    IF Len(av) > 1 /\ IsHelpFlag(av[2])
    THEN tool_help(table, name)
    ELSE IF name \in Range(table)
    THEN Outcome("tool_main", name, av, "", "fn")
    ELSE Outcome("none", name, <<>>, "stderr", "1")

\* int main(int argc, char **argv)
main(table, av) ==
    LET prog == Basename(av[1])
    IN  IF Len(av) > 1 /\ IsHelpFlag(av[2])
        THEN help
        ELSE IF prog = APP_NAME
        THEN IF Len(av) < 2 THEN help ELSE dispatch(table, av[2], Tail(av))
        ELSE dispatch(table, prog, av)

\* a name no build has in its table: a stale or hand-made entry point
Stale == <<"z">>
CommandNames == Stems \cup {Stale}
ArgTokens == {HelpLong, HelpShort, <<"-", "x">>, <<"a">>}
ArgLists == UNION {[1..k -> ArgTokens] : k \in 0..MaxArgs}
BinDir == <<"b", "i", "n", "/">>

NotRun == [argv |-> <<>>, res |-> Outcome("", <<>>, <<>>, "", "")]
Ran(av) == [argv |-> av, res |-> main(dTable, av)]

\* the table of a build over some non-empty listing, the command, its
\* arguments, and no run yet
DispInit ==
    /\ dTable \in {sorted(S) : S \in SUBSET Stems \ {{}}}
    /\ dArgs \in [name : CommandNames, args : ArgLists]
    /\ dRun = [entry |-> NotRun, path |-> NotRun, canon |-> NotRun, bare |-> NotRun]

\* the binary run through the entry point of the name: [t, args...]
RunEntry ==
    /\ dRun.entry = NotRun
    /\ dRun' = [dRun EXCEPT !.entry = Ran(<<dArgs.name>> \o dArgs.args)]
    /\ UNCHANGED <<dTable, dArgs, fsvars, valvars>>

\* the same with the entry point given by its path: [bin/t, args...]
RunEntryByPath ==
    /\ dRun.path = NotRun
    /\ dRun' = [dRun EXCEPT !.path = Ran(<<BinDir \o dArgs.name>> \o dArgs.args)]
    /\ UNCHANGED <<dTable, dArgs, fsvars, valvars>>

\* the canonical program with the name as its first argument:
\* [APP_NAME, t, args...]
RunCanonical ==
    /\ dRun.canon = NotRun
    /\ dRun' = [dRun EXCEPT !.canon = Ran(<<APP_NAME, dArgs.name>> \o dArgs.args)]
    /\ UNCHANGED <<dTable, dArgs, fsvars, valvars>>

\* the canonical program with no argument: [APP_NAME]
RunBare ==
    /\ dRun.bare = NotRun
    /\ dRun' = [dRun EXCEPT !.bare = Ran(<<APP_NAME>>)]
    /\ UNCHANGED <<dTable, dArgs, fsvars, valvars>>

InitDispatch == FsInit /\ ValIdle /\ DispInit
NextDispatch == RunEntry \/ RunEntryByPath \/ RunCanonical \/ RunBare
SpecDispatch == InitDispatch /\ [][NextDispatch]_vars

\* C8: for a registered tool t, the run [t, args...] through t's entry point
\* and the run [APP_NAME, t, args...] reach the same function, hand it the
\* same argument vector and exit with the same status.
C8_EntryPointEqualsCanonical ==
    (dArgs.name \in Range(dTable) /\ dRun.entry # NotRun /\ dRun.canon # NotRun) =>
        dRun.entry.res = dRun.canon.res

\* the command name a run resolves: the program name, or the first argument
\* under the canonical name (<<>> when there is none)
ResolvedName(av) ==
    IF Basename(av[1]) # APP_NAME THEN Basename(av[1])
    ELSE IF Len(av) >= 2 THEN av[2]
    ELSE <<>>

UnknownCommand(run) ==
    /\ run # NotRun
    /\ ResolvedName(run.argv) # <<>>
    /\ ~IsHelpFlag(ResolvedName(run.argv))
    /\ ResolvedName(run.argv) \notin Range(dTable)

\* C9: every run whose resolved command name is not a registered tool prints
\* the error to the error stream and exits non-zero, whatever the arguments
\* after the name are.
C9_UnknownCommandIsError ==
    \A k \in DOMAIN dRun :
        UnknownCommand(dRun[k]) =>
            /\ dRun[k].res.unknown = "stderr"
            /\ dRun[k].res.status = "1"

====
